---- MODULE Spec2Model ----
(***************************************************************************)
(* Model of the emergency-medicare-planner MCP server (src/index.ts):      *)
(* the CallTool request handler, the four mock tools and the               *)
(* SequentialThinkingServer session (thoughtHistory, branches).            *)
(***************************************************************************)
EXTENDS Integers, Sequences, FiniteSets, TLC

VARIABLES
    thoughtHistory,   \* SequentialThinkingServer.thoughtHistory
    branches,         \* SequentialThinkingServer.branches (own properties, creation order)
    request,          \* request.params of the call handled last
    response,         \* what the CallTool handler produced for that call
    pending           \* requests the transport has delivered, handler not yet run

vars == <<thoughtHistory, branches, request, response, pending>>

(***************************************************************************)
(* Bounds of the model.                                                    *)
(***************************************************************************)
\* Longest thoughtHistory explored.
MaxHistory == 2

\* Most requests delivered and not yet handled.
MaxPending == 2

(***************************************************************************)
(* JavaScript values.  Every value carries its typeof tag; the payload     *)
(* field is named after the type so values of different types never share  *)
(* a field.                                                                *)
(***************************************************************************)
Undefined == [t |-> "undefined"]
Str(s) == [t |-> "string", s |-> s]
Num(n) == [t |-> "number", n |-> n]
Bool(b) == [t |-> "boolean", b |-> b]
Arr(a) == [t |-> "array", a |-> a]

\* typeof x
TypeOf(x) == IF x.t = "array" THEN "object" ELSE x.t

\* ToBoolean(x): undefined, "", 0 and false are falsy; objects are truthy.
Truthy(x) ==
    CASE x.t = "undefined" -> FALSE
      [] x.t = "string" -> x.s # ""
      [] x.t = "number" -> x.n # 0
      [] x.t = "boolean" -> x.b
      [] OTHER -> TRUE

\* Decimal numerals of the array indices the model uses as property names.
IndexNumerals == <<"0", "1", "2", "3", "4", "5", "6", "7", "8", "9">>

\* A property name that is a canonical array index ("0", "1", ...).
IsArrayIndex(key) == \E i \in 1..Len(IndexNumerals) : IndexNumerals[i] = key

\* The number an array-index property name denotes.
ArrayIndex(key) == (CHOOSE i \in 1..Len(IndexNumerals) : IndexNumerals[i] = key) - 1

\* ToPropertyKey(x) for the values used as branchId: a string is its own
\* key, a small non-negative integer becomes its decimal numeral.
PropertyKey(x) ==
    CASE x.t = "string" -> x.s
      [] x.t = "number" -> IndexNumerals[x.n + 1]
      [] x.t = "boolean" -> IF x.b THEN "true" ELSE "false"
      [] OTHER -> "undefined"

\* Property names every object literal inherits from Object.prototype.
ObjectPrototypeKeys ==
    {"constructor", "toString", "valueOf", "hasOwnProperty", "__proto__"}

(***************************************************************************)
(* The branches object: Record<string, ThoughtData[]> = {}.  Own           *)
(* properties are kept in creation order; a ThoughtData held in a branch   *)
(* is the very object pushed onto thoughtHistory, so it is represented by  *)
(* its position in thoughtHistory.                                         *)
(***************************************************************************)
HasOwn(obj, key) == \E i \in 1..Len(obj) : obj[i].key = key

OwnIndex(obj, key) == CHOOSE i \in 1..Len(obj) : obj[i].key = key

\* obj[key]: the own array, else what Object.prototype supplies, else undefined.
GetProp(obj, key) ==
    IF HasOwn(obj, key) THEN [t |-> "array", a |-> obj[OwnIndex(obj, key)].refs]
    ELSE IF key \in ObjectPrototypeKeys THEN [t |-> "function"]
    ELSE Undefined

\* obj[key] = [] for a key that is not yet an own property.
CreateProp(obj, key) == Append(obj, [key |-> key, refs |-> <<>>])

\* A push where every label shares one array, so the new entry shows under
\* all of them.
PushPropShared(obj, key, ref) ==
    [i \in 1..Len(obj) |-> [obj[i] EXCEPT !.refs = Append(@, ref)]]

\* obj[key].push(ref) for an own property.
PushProp(obj, key, ref) ==
    [obj EXCEPT ![OwnIndex(obj, key)].refs = Append(@, ref)]

\* Object.keys(obj): array-index names in ascending numeric order first,
\* then the other names in creation order.
ObjectKeys(obj) ==
    LET names == [i \in 1..Len(obj) |-> obj[i].key]
        idx == {ArrayIndex(names[i]) : i \in {j \in 1..Len(obj) : IsArrayIndex(names[j])}}
        sorted == [i \in 1..Cardinality(idx) |->
                     IndexNumerals[(CHOOSE n \in idx : Cardinality({m \in idx : m < n}) = i - 1) + 1]]
    IN sorted \o SelectSeq(names, LAMBDA k : ~IsArrayIndex(k))

(***************************************************************************)
(* Envelopes returned to the caller.                                       *)
(***************************************************************************)
\* { content: [{type: "text", text}] } with isError absent (FALSE) or true.
Envelope(text, isError) ==
    [content |-> <<[type |-> "text", text |-> text]>>, isError |-> isError]

\* A completed evaluation of a block: a returned value or a thrown Error.
Return(v) == [threw |-> FALSE, value |-> v]
Throw(message) == [threw |-> TRUE, message |-> message]

(***************************************************************************)
(* SequentialThinkingServer                                                *)
(***************************************************************************)
\* A validator that checks the type of thought but not that it is non-empty.
validateThoughtDataTypeOnly(input) ==
    IF input.t = "undefined"
    THEN Throw("Cannot read properties of undefined (reading 'thought')")
    ELSE IF TypeOf(input.thought) # "string"
    THEN Throw("Invalid thought: must be a string")
    ELSE IF ~Truthy(input.thoughtNumber) \/ TypeOf(input.thoughtNumber) # "number"
    THEN Throw("Invalid thoughtNumber: must be a number")
    ELSE IF ~Truthy(input.totalThoughts) \/ TypeOf(input.totalThoughts) # "number"
    THEN Throw("Invalid totalThoughts: must be a number")
    ELSE IF TypeOf(input.nextThoughtNeeded) # "boolean"
    THEN Throw("Invalid nextThoughtNeeded: must be a boolean")
    ELSE Return([thought |-> input.thought,
                 thoughtNumber |-> input.thoughtNumber,
                 totalThoughts |-> input.totalThoughts,
                 nextThoughtNeeded |-> input.nextThoughtNeeded,
                 isRevision |-> input.isRevision,
                 revisesThought |-> input.revisesThought,
                 branchFromThought |-> input.branchFromThought,
                 branchId |-> input.branchId,
                 needsMoreThoughts |-> input.needsMoreThoughts])

validateThoughtData(input) ==
    IF input.t = "undefined"
    THEN Throw("Cannot read properties of undefined (reading 'thought')")
    ELSE IF ~Truthy(input.thought) \/ TypeOf(input.thought) # "string"
    THEN Throw("Invalid thought: must be a string")
    ELSE IF ~Truthy(input.thoughtNumber) \/ TypeOf(input.thoughtNumber) # "number"
    THEN Throw("Invalid thoughtNumber: must be a number")
    ELSE IF ~Truthy(input.totalThoughts) \/ TypeOf(input.totalThoughts) # "number"
    THEN Throw("Invalid totalThoughts: must be a number")
    ELSE IF TypeOf(input.nextThoughtNeeded) # "boolean"
    THEN Throw("Invalid nextThoughtNeeded: must be a boolean")
    ELSE Return([thought |-> input.thought,
                 thoughtNumber |-> input.thoughtNumber,
                 totalThoughts |-> input.totalThoughts,
                 nextThoughtNeeded |-> input.nextThoughtNeeded,
                 isRevision |-> input.isRevision,
                 revisesThought |-> input.revisesThought,
                 branchFromThought |-> input.branchFromThought,
                 branchId |-> input.branchId,
                 needsMoreThoughts |-> input.needsMoreThoughts])

\* The catch block of processThought.
processThoughtCatch(message) ==
    Envelope([error |-> message, status |-> "failed"], TRUE)

\* A summary that reports the largest estimate recorded so far, so that the
\* reported estimate never goes down over a session.
ThoughtSummaryRunningMax(data, hist, br) ==
    Envelope([thoughtNumber |-> data.thoughtNumber.n,
              totalThoughts |->
                  CHOOSE n \in {hist[i].totalThoughts.n : i \in 1..Len(hist)} :
                      \A i \in 1..Len(hist) : hist[i].totalThoughts.n <= n,
              nextThoughtNeeded |-> data.nextThoughtNeeded.b,
              branches |-> ObjectKeys(br),
              thoughtHistoryLength |-> Len(hist)], FALSE)

\* The object processThought serialises on success.
ThoughtSummary(data, hist, br) ==
    Envelope([thoughtNumber |-> data.thoughtNumber.n,
              totalThoughts |-> data.totalThoughts.n,
              nextThoughtNeeded |-> data.nextThoughtNeeded.b,
              branches |-> ObjectKeys(br),
              thoughtHistoryLength |-> Len(hist)], FALSE)

\* A tracker that stores the estimate as submitted.
normaliseNever(data) == data

\* if (thoughtNumber > totalThoughts) totalThoughts = thoughtNumber
normalise(data) ==
    IF data.thoughtNumber.n > data.totalThoughts.n
    THEN [data EXCEPT !.totalThoughts = data.thoughtNumber]
    ELSE data

\* A tracker that rewrites the revised entry instead of appending.
pushThoughtOverRevised(hist, data) ==
    IF /\ Truthy(data.isRevision)
       /\ \E i \in 1..Len(hist) : hist[i].thoughtNumber = data.revisesThought
    THEN [hist EXCEPT ![CHOOSE i \in 1..Len(hist) :
                          hist[i].thoughtNumber = data.revisesThought] = data]
    ELSE Append(hist, data)

\* this.thoughtHistory.push(validatedInput)
pushThought(hist, data) == Append(hist, data)

\* processThought(input) run on the session (hist, br): the session it
\* leaves and the envelope it returns.
processThought(hist, br, input) ==
    LET v == validateThoughtData(input) IN
    IF v.threw
    THEN [thoughtHistory |-> hist, branches |-> br,
          result |-> processThoughtCatch(v.message)]
    ELSE
      LET data == normalise(v.value)
          hist1 == pushThought(hist, data)
          ref == Len(hist1)
          inBranch == Truthy(data.branchFromThought) /\ Truthy(data.branchId)
          key == PropertyKey(data.branchId)
          br1 == IF inBranch /\ ~Truthy(GetProp(br, key))
                 THEN CreateProp(br, key) ELSE br
          \* branches[branchId].push is undefined unless the value is an array
          pushThrows == inBranch /\ GetProp(br1, key).t # "array"
          br2 == IF inBranch /\ ~pushThrows THEN PushProp(br1, key, ref) ELSE br1
      IN IF pushThrows
         THEN [thoughtHistory |-> hist1, branches |-> br1,
               result |-> processThoughtCatch(
                  "this.branches[validatedInput.branchId].push is not a function")]
         ELSE [thoughtHistory |-> hist1, branches |-> br2,
               result |-> ThoughtSummary(data, hist1, br2)]


(***************************************************************************)
(* The zod schemas of the four mock tools.  parse returns the validated    *)
(* arguments or throws a ZodError.                                         *)
(***************************************************************************)
\* z.string() / z.number() on a present value
IsString(x) == x.t = "string"
IsNumber(x) == x.t = "number"

\* z.enum(values)
IsEnum(x, values) == x.t = "string" /\ x.s \in values

\* z.array(z.string()) and z.array(z.enum(values))
IsStringArray(x) == x.t = "array" /\ \A i \in 1..Len(x.a) : IsString(x.a[i])
IsEnumArray(x, values) == x.t = "array" /\ \A i \in 1..Len(x.a) : IsEnum(x.a[i], values)

\* .optional()
Optional(x, ok) == x.t = "undefined" \/ ok

\* z.number().default(10000)
DefaultRadius == 10000

CareQualityEnum == {"high", "medium", "any"}
PriceRangeEnum == {"low", "moderate", "high", "any"}
FacilityTypeEnum == {"hospital", "clinic", "emergency", "pharmacy", "specialist"}
InfrastructureEnum == {"excellent", "good", "any"}
UrgencyEnum == {"critical", "urgent", "standard"}

ZodError == "ZodError: invalid arguments"

FindNearbyMedicalFacilitiesSchema(args) ==
    IF /\ args.t = "object"
       /\ IsString(args.userLocation)
       /\ Optional(args.radius, IsNumber(args.radius))
       /\ Optional(args.treatmentNeeds, IsStringArray(args.treatmentNeeds))
       /\ Optional(args.careQuality, IsEnum(args.careQuality, CareQualityEnum))
       /\ Optional(args.priceRange, IsEnum(args.priceRange, PriceRangeEnum))
       /\ Optional(args.facilities, IsEnumArray(args.facilities, FacilityTypeEnum))
       /\ Optional(args.infrastructure, IsEnum(args.infrastructure, InfrastructureEnum))
    THEN Return([args EXCEPT !.radius =
                    IF args.radius.t = "undefined" THEN Num(DefaultRadius) ELSE @])
    ELSE Throw(ZodError)

CheckMedicareCoverageSchema(args) ==
    IF /\ args.t = "object"
       /\ IsString(args.treatmentCode)
       /\ IsString(args.state)
       /\ Optional(args.insuranceType, IsString(args.insuranceType))
    THEN Return(args)
    ELSE Throw(ZodError)

GetEmergencyContactsSchema(args) ==
    IF /\ args.t = "object"
       /\ IsString(args.location)
       /\ Optional(args.serviceType, IsStringArray(args.serviceType))
    THEN Return(args)
    ELSE Throw(ZodError)

ScheduleEmergencyTransportSchema(args) ==
    IF /\ args.t = "object"
       /\ IsString(args.patientLocation)
       /\ Optional(args.destination, IsString(args.destination))
       /\ IsString(args.medicalCondition)
       /\ IsEnum(args.urgency, UrgencyEnum)
    THEN Return(args)
    ELSE Throw(ZodError)

(***************************************************************************)
(* find_nearby_medical_facilities                                          *)
(***************************************************************************)
mockFacilities == <<
    [name |-> "General Hospital", type |-> "hospital",
     treatmentsAvailable |-> <<"emergency", "surgery", "cardiology">>,
     careQuality |-> "high", priceRange |-> "moderate", infrastructure |-> "excellent"],
    [name |-> "Community Clinic", type |-> "clinic",
     treatmentsAvailable |-> <<"general practice", "pediatrics">>,
     careQuality |-> "medium", priceRange |-> "low", infrastructure |-> "good"],
    [name |-> "Specialized Medical Center", type |-> "specialist",
     treatmentsAvailable |-> <<"oncology", "neurology">>,
     careQuality |-> "high", priceRange |-> "high", infrastructure |-> "excellent"] >>

\* array.includes(x)
Includes(array, x) == \E i \in 1..Len(array) : array[i] = x

\* The predicate of each facilities.filter(...) call.
\* A treatment filter that wants every requested treatment.
treatmentMatchesAll(a, facility) ==
    \A i \in 1..Len(a.treatmentNeeds.a) :
        Includes(facility.treatmentsAvailable, a.treatmentNeeds.a[i].s)

treatmentMatches(a, facility) ==
    \E i \in 1..Len(a.treatmentNeeds.a) :
        Includes(facility.treatmentsAvailable, a.treatmentNeeds.a[i].s)

\* A care-quality filter that wants the exact rating.
careQualityMatchesExact(a, facility) == facility.careQuality = a.careQuality.s

careQualityMatches(a, facility) ==
    \/ facility.careQuality = a.careQuality.s
    \/ (a.careQuality.s = "high" /\ facility.careQuality = "high")
    \/ (a.careQuality.s = "medium" /\ Includes(<<"medium", "high">>, facility.careQuality))

priceRangeMatches(a, facility) == facility.priceRange = a.priceRange.s

facilityTypeMatches(a, facility) ==
    \E i \in 1..Len(a.facilities.a) : a.facilities.a[i].s = facility.type

infrastructureMatches(a, facility) ==
    \/ facility.infrastructure = a.infrastructure.s
    \/ (a.infrastructure.s = "good" /\ Includes(<<"good", "excellent">>, facility.infrastructure))

\* The condition guarding each filter.
treatmentSpecified(a) == Truthy(a.treatmentNeeds) /\ Len(a.treatmentNeeds.a) > 0
careQualitySpecified(a) == Truthy(a.careQuality) /\ a.careQuality.s # "any"
priceRangeSpecified(a) == Truthy(a.priceRange) /\ a.priceRange.s # "any"
facilityTypeSpecified(a) == Truthy(a.facilities) /\ Len(a.facilities.a) > 0
infrastructureSpecified(a) == Truthy(a.infrastructure) /\ a.infrastructure.s # "any"

\* The five filters, each applied to what the one before it kept.
byTreatment(a, facilities) ==
    IF treatmentSpecified(a)
    THEN SelectSeq(facilities, LAMBDA f : treatmentMatches(a, f)) ELSE facilities

\* A care-quality filter that starts again from the full list.
byCareQualityOfAll(a, facilities) ==
    IF careQualitySpecified(a)
    THEN SelectSeq(mockFacilities, LAMBDA f : careQualityMatches(a, f)) ELSE facilities

byCareQuality(a, facilities) ==
    IF careQualitySpecified(a)
    THEN SelectSeq(facilities, LAMBDA f : careQualityMatches(a, f)) ELSE facilities

byPriceRange(a, facilities) ==
    IF priceRangeSpecified(a)
    THEN SelectSeq(facilities, LAMBDA f : priceRangeMatches(a, f)) ELSE facilities

byFacilityType(a, facilities) ==
    IF facilityTypeSpecified(a)
    THEN SelectSeq(facilities, LAMBDA f : facilityTypeMatches(a, f)) ELSE facilities

byInfrastructure(a, facilities) ==
    IF infrastructureSpecified(a)
    THEN SelectSeq(facilities, LAMBDA f : infrastructureMatches(a, f)) ELSE facilities

filterFacilities(a) ==
    byInfrastructure(a,
      byFacilityType(a,
        byPriceRange(a,
          byCareQuality(a,
            byTreatment(a, mockFacilities)))))

\* "Found N medical facilities near L within R/1000 km:" and the list.
\* The radii of the model are whole kilometres.
findNearbyMedicalFacilities(a) ==
    LET facilities == filterFacilities(a) IN
    Envelope([found |-> Len(facilities),
              near |-> a.userLocation.s,
              km |-> a.radius.n \div 1000,
              listed |-> [i \in 1..Len(facilities) |-> facilities[i].name]], FALSE)

(***************************************************************************)
(* check_medicare_coverage, get_emergency_contacts,                        *)
(* schedule_emergency_transport                                            *)
(***************************************************************************)
checkMedicareCoverage(a) ==
    Envelope([coverageFor |-> a.treatmentCode.s,
              inState |-> a.state.s,
              coverageType |-> IF Truthy(a.insuranceType)
                               THEN a.insuranceType.s ELSE "Standard"], FALSE)

getEmergencyContacts(a) ==
    Envelope([contactsFor |-> a.location.s], FALSE)

\* id is Math.floor(Math.random() * 10000)
scheduleEmergencyTransport(a, id) ==
    Envelope([transportFrom |-> a.patientLocation.s,
              to |-> IF Truthy(a.destination) THEN a.destination.s ELSE "",
              urgency |-> a.urgency.s,
              condition |-> a.medicalCondition.s,
              transportId |-> id], FALSE)

(***************************************************************************)
(* The CallToolRequestSchema handler.                                      *)
(***************************************************************************)
ToolNames == {"find_nearby_medical_facilities", "check_medicare_coverage",
              "get_emergency_contacts", "schedule_emergency_transport",
              "sequentialthinking"}

\* What the handler hands back to the SDK: a returned envelope, or a
\* rejection when an exception leaves the handler.
Returned(envelope) == [state |-> "returned", envelope |-> envelope]
Rejected(message) == [state |-> "rejected", reason |-> message]

\* A catch block that reports a fixed text instead of the error's message.
callToolCatchGeneric(message) ==
    [state |-> "returned",
     envelope |-> Envelope([message |-> "Error: request failed"], TRUE)]

\* The catch block of the handler.
callToolCatch(message) ==
    Returned(Envelope([message |-> "Error: " \o message], TRUE))

\* A handler without the try/catch: a thrown error leaves it.
TryWithoutCatch(outcome) ==
    IF outcome.threw THEN Rejected(outcome.message)
    ELSE Returned(outcome.value)

\* try { ... } catch of the handler applied to the outcome of a block.
TryCatch(outcome) ==
    IF outcome.threw THEN callToolCatch(outcome.message)
    ELSE Returned(outcome.value)

\* The switch statement: parse, then the tool's body.
switchTool(name, args, id) ==
    CASE name = "find_nearby_medical_facilities" ->
           LET p == FindNearbyMedicalFacilitiesSchema(args) IN
           IF p.threw THEN p ELSE Return(findNearbyMedicalFacilities(p.value))
      [] name = "check_medicare_coverage" ->
           LET p == CheckMedicareCoverageSchema(args) IN
           IF p.threw THEN p ELSE Return(checkMedicareCoverage(p.value))
      [] name = "get_emergency_contacts" ->
           LET p == GetEmergencyContactsSchema(args) IN
           IF p.threw THEN p ELSE Return(getEmergencyContacts(p.value))
      [] name = "schedule_emergency_transport" ->
           LET p == ScheduleEmergencyTransportSchema(args) IN
           IF p.threw THEN p ELSE Return(scheduleEmergencyTransport(p.value, id))
      [] OTHER -> Throw("Unknown tool: " \o name)

\* A handler whose other tools start the session afresh.
callToolResetting(hist, br, name, args, id) ==
    IF name = "sequentialthinking"
    THEN LET r == processThought(hist, br, args) IN
         [thoughtHistory |-> r.thoughtHistory, branches |-> r.branches,
          response |-> TryCatch(Return(r.result))]
    ELSE [thoughtHistory |-> <<>>, branches |-> <<>>,
          response |-> TryCatch(switchTool(name, args, id))]

\* The whole handler run on the session (hist, br): the session it leaves
\* and what it hands back.
callTool(hist, br, name, args, id) ==
    IF name = "sequentialthinking"
    THEN LET r == processThought(hist, br, args) IN
         [thoughtHistory |-> r.thoughtHistory, branches |-> r.branches,
          response |-> TryCatch(Return(r.result))]
    ELSE [thoughtHistory |-> hist, branches |-> br,
          response |-> TryCatch(switchTool(name, args, id))]
(***************************************************************************)
(* Requests explored.                                                      *)
(***************************************************************************)
\* The arguments object of a sequentialthinking call; an absent property
\* reads as undefined.
ThoughtArgs(thought, thoughtNumber, totalThoughts, nextThoughtNeeded, isRevision, revisesThought, branchFromThought, branchId) ==
    [t |-> "object", thought |-> thought, thoughtNumber |-> thoughtNumber,
     totalThoughts |-> totalThoughts, nextThoughtNeeded |-> nextThoughtNeeded,
     isRevision |-> isRevision, revisesThought |-> revisesThought,
     branchFromThought |-> branchFromThought, branchId |-> branchId,
     needsMoreThoughts |-> Undefined]

PlainThought(thoughtNumber, totalThoughts, nextThoughtNeeded) ==
    ThoughtArgs(Str("t"), thoughtNumber, totalThoughts, nextThoughtNeeded,
                Undefined, Undefined, Undefined, Undefined)

BranchThought(branchFromThought, branchId) ==
    ThoughtArgs(Str("t"), Num(1), Num(2), Bool(TRUE),
                Undefined, Undefined, branchFromThought, branchId)

\* A revision of thought 1 that names a branch point but no branch.
RevisionThought ==
    ThoughtArgs(Str("t"), Num(2), Num(2), Bool(TRUE),
                Bool(TRUE), Num(1), Num(1), Undefined)

\* Inputs that pass validateThoughtData.
ValidThoughts ==
    {PlainThought(Num(1), Num(1), Bool(TRUE)),
     PlainThought(Num(2), Num(1), Bool(TRUE)),
     PlainThought(Num(-1), Num(1), Bool(FALSE)),
     RevisionThought,
     BranchThought(Num(1), Str("b")),
     BranchThought(Num(1), Str("1")),
     BranchThought(Num(1), Str("constructor")),
     BranchThought(Undefined, Str("b"))}

\* Inputs that fail validateThoughtData.
InvalidThoughts ==
    {Undefined,
     ThoughtArgs(Undefined, Num(1), Num(1), Bool(TRUE),
                 Undefined, Undefined, Num(1), Str("b")),
     [PlainThought(Num(1), Num(1), Bool(TRUE)) EXCEPT !.thought = Str("")],
     [PlainThought(Num(1), Num(1), Bool(TRUE)) EXCEPT !.thought = Num(1)],
     PlainThought(Undefined, Str("1"), Bool(TRUE)),
     PlainThought(Str("1"), Num(1), Bool(TRUE)),
     PlainThought(Num(0), Num(1), Bool(TRUE)),
     PlainThought(Num(1), Undefined, Undefined),
     PlainThought(Num(1), Str("1"), Bool(TRUE)),
     PlainThought(Num(-1), Str("1"), Bool(TRUE)),
     PlainThought(Num(1), Num(1), Str("true"))}

ThoughtInputs == ValidThoughts \cup InvalidThoughts

FindArgs(userLocation, radius, treatmentNeeds, careQuality, priceRange, facilities, infrastructure) ==
    [t |-> "object", userLocation |-> userLocation, radius |-> radius,
     treatmentNeeds |-> treatmentNeeds, careQuality |-> careQuality,
     priceRange |-> priceRange, facilities |-> facilities,
     infrastructure |-> infrastructure]

StrArr(seq) == Arr([i \in 1..Len(seq) |-> Str(seq[i])])

\* The filter values of the facility search.
TreatmentNeedsInputs ==
    {Undefined, StrArr(<<>>), StrArr(<<"oncology">>),
     StrArr(<<"emergency", "pediatrics">>), StrArr(<<"dental">>)}
CareQualityInputs == {Undefined} \cup {Str(q) : q \in CareQualityEnum}
PriceRangeInputs == {Undefined} \cup {Str(q) : q \in PriceRangeEnum}
FacilitiesInputs ==
    {Undefined, StrArr(<<>>), StrArr(<<"hospital">>),
     StrArr(<<"clinic", "specialist">>), StrArr(<<"pharmacy">>)}
InfrastructureInputs == {Undefined} \cup {Str(q) : q \in InfrastructureEnum}

\* Every combination of filters, all of them valid.
ValidFindInputs ==
    {FindArgs(Str("here"), Undefined, tn, cq, pr, fa, inf) :
        tn \in TreatmentNeedsInputs, cq \in CareQualityInputs,
        pr \in PriceRangeInputs, fa \in FacilitiesInputs,
        inf \in InfrastructureInputs}

\* Arguments the schema rejects.
InvalidFindInputs ==
    {Undefined,
     FindArgs(Undefined, Undefined, Undefined, Undefined, Undefined, Undefined, Undefined),
     FindArgs(Str("here"), Str("far"), Undefined, Undefined, Undefined, Undefined, Undefined),
     FindArgs(Str("here"), Undefined, Undefined, Str("low"), Undefined, Undefined, Undefined),
     FindArgs(Str("here"), Undefined, Undefined, Undefined, Undefined,
              StrArr(<<"spa">>), Undefined)}

\* The searches interleaved with the session.
SomeFindInputs ==
    {Undefined,
     FindArgs(Str("here"), Num(5000), StrArr(<<"oncology">>), Str("medium"),
              Undefined, Undefined, Str("good"))}

CoverageInputs ==
    {[t |-> "object", treatmentCode |-> Str("A1"), state |-> Str("CA"),
      insuranceType |-> Undefined],
     [t |-> "object", treatmentCode |-> Str("A1"), state |-> Undefined,
      insuranceType |-> Str("Part A")]}

ContactsInputs ==
    {Undefined,
     [t |-> "object", location |-> Str("here"), serviceType |-> Undefined]}

TransportInputs ==
    {[t |-> "object", patientLocation |-> Str("here"), destination |-> Undefined,
      medicalCondition |-> Str("pain"), urgency |-> Str(u)] : u \in {"urgent", "now"}}

\* Values of Math.floor(Math.random() * 10000) explored.
TransportIds == {0, 9999}

\* The tool names the README lists under Components / Tools.
ReadmeToolNames ==
    {"searchMedicalFacilities", "getMedicalFacilityDetails",
     "calculateRouteToFacility", "checkFacilityAvailability"}

\* Names that are not in the switch.
UnknownNames == {"doesNotExist"} \cup ReadmeToolNames

(***************************************************************************)
(* The state machine.                                                      *)
(***************************************************************************)
NoRequest == [name |-> "", arguments |-> Undefined]
NoResponse == [state |-> "none"]

Init ==
    /\ thoughtHistory = <<>>
    /\ branches = <<>>
    /\ request = NoRequest
    /\ response = NoResponse
    /\ pending = <<>>

\* Each action is one CallTool request handled from receipt to the
\* returned envelope.
SequentialThinking ==
    \E args \in ThoughtInputs :
      LET out == callTool(thoughtHistory, branches, "sequentialthinking", args, 0) IN
      /\ Len(out.thoughtHistory) <= MaxHistory
      /\ thoughtHistory' = out.thoughtHistory
      /\ branches' = out.branches
      /\ request' = [name |-> "sequentialthinking", arguments |-> args]
      /\ response' = out.response
      /\ pending' = pending

FindNearbyMedicalFacilities ==
    \E args \in SomeFindInputs :
      LET out == callTool(thoughtHistory, branches,
                          "find_nearby_medical_facilities", args, 0) IN
      /\ thoughtHistory' = out.thoughtHistory
      /\ branches' = out.branches
      /\ request' = [name |-> "find_nearby_medical_facilities", arguments |-> args]
      /\ response' = out.response
      /\ pending' = pending

CheckMedicareCoverage ==
    \E args \in CoverageInputs :
      LET out == callTool(thoughtHistory, branches, "check_medicare_coverage", args, 0) IN
      /\ thoughtHistory' = out.thoughtHistory
      /\ branches' = out.branches
      /\ request' = [name |-> "check_medicare_coverage", arguments |-> args]
      /\ response' = out.response
      /\ pending' = pending

GetEmergencyContacts ==
    \E args \in ContactsInputs :
      LET out == callTool(thoughtHistory, branches, "get_emergency_contacts", args, 0) IN
      /\ thoughtHistory' = out.thoughtHistory
      /\ branches' = out.branches
      /\ request' = [name |-> "get_emergency_contacts", arguments |-> args]
      /\ response' = out.response
      /\ pending' = pending

ScheduleEmergencyTransport ==
    \E args \in TransportInputs, id \in TransportIds :
      LET out == callTool(thoughtHistory, branches,
                          "schedule_emergency_transport", args, id) IN
      /\ thoughtHistory' = out.thoughtHistory
      /\ branches' = out.branches
      /\ request' = [name |-> "schedule_emergency_transport", arguments |-> args]
      /\ response' = out.response
      /\ pending' = pending

UnknownTool ==
    \E name \in UnknownNames :
      LET out == callTool(thoughtHistory, branches, name, Undefined, 0) IN
      /\ thoughtHistory' = out.thoughtHistory
      /\ branches' = out.branches
      /\ request' = [name |-> name, arguments |-> Undefined]
      /\ response' = out.response
      /\ pending' = pending

Next ==
    \/ SequentialThinking
    \/ FindNearbyMedicalFacilities
    \/ CheckMedicareCoverage
    \/ GetEmergencyContacts
    \/ ScheduleEmergencyTransport
    \/ UnknownTool

Spec == Init /\ [][Next]_vars

\* The facility search alone, over every combination of its filters: a
\* request is pending, then handled.
InitSearch ==
    /\ thoughtHistory = <<>>
    /\ branches = <<>>
    /\ request \in {[name |-> "find_nearby_medical_facilities", arguments |-> args] :
                       args \in ValidFindInputs \cup InvalidFindInputs}
    /\ response = NoResponse
    /\ pending = <<>>

SearchPending ==
    /\ response = NoResponse
    /\ LET out == callTool(thoughtHistory, branches, request.name, request.arguments, 0) IN
       /\ thoughtHistory' = out.thoughtHistory
       /\ branches' = out.branches
       /\ request' = request
       /\ response' = out.response
       /\ pending' = pending

NextSearch == SearchPending

SpecSearch == InitSearch /\ [][NextSearch]_vars

\* Requests in flight.  The stdio transport hands each message it reads to
\* the CallTool handler; the handler is an async function without an await,
\* and processThought is synchronous, so a handler that has started runs to
\* its return before any other handler starts.  Which delivered request is
\* handled next is left open.
AsyncRequests ==
    {[name |-> "sequentialthinking",
      arguments |-> PlainThought(Num(1), Num(1), Bool(TRUE))],
     [name |-> "sequentialthinking", arguments |-> BranchThought(Num(1), Str("b"))],
     [name |-> "sequentialthinking",
      arguments |-> BranchThought(Num(1), Str("constructor"))],
     [name |-> "get_emergency_contacts",
      arguments |-> [t |-> "object", location |-> Str("here"),
                     serviceType |-> Undefined]]}

\* The sequence without its i-th element.
Remove(seq, i) == SubSeq(seq, 1, i - 1) \o SubSeq(seq, i + 1, Len(seq))

\* The transport reads one more request.
TransportDeliver ==
    /\ Len(pending) < MaxPending
    /\ \E req \in AsyncRequests : pending' = Append(pending, req)
    /\ UNCHANGED <<thoughtHistory, branches, request, response>>

\* The handler runs for one delivered request, from its first statement to
\* its return.
HandleRequest ==
    \E i \in 1..Len(pending) :
      LET out == callTool(thoughtHistory, branches,
                          pending[i].name, pending[i].arguments, 0) IN
      /\ Len(out.thoughtHistory) <= MaxHistory
      /\ thoughtHistory' = out.thoughtHistory
      /\ branches' = out.branches
      /\ request' = pending[i]
      /\ response' = out.response
      /\ pending' = Remove(pending, i)

NextAsync ==
    \/ TransportDeliver
    \/ HandleRequest

SpecAsync == Init /\ [][NextAsync]_vars

(***************************************************************************)
(* Vocabulary of the properties.                                           *)
(***************************************************************************)
Max(a, b) == IF a >= b THEN a ELSE b

\* How often x occurs in a sequence.
Count(seq, x) == Cardinality({i \in 1..Len(seq) : seq[i] = x})

\* The last call was a sequentialthinking call.
ThinkingCalled == request.name = "sequentialthinking" /\ response.state = "returned"

\* The text block of the envelope returned last.
ResponseText == response.envelope.content[1].text

\* The last call returned an envelope with the error flag set.
ErrorReturned == response.state = "returned" /\ response.envelope.isError

\* The last call returned a reasoning-step summary.
SummaryReturned == ThinkingCalled /\ ~response.envelope.isError

\* The structural rules of a reasoning step as the specification words
\* them: text a non-empty string, stepNumber and totalStepsEstimate
\* numeric, continuationNeeded a boolean.
StructurallyInvalid(args) ==
    \/ args.t = "undefined"
    \/ args.thought.t # "string"
    \/ args.thought = Str("")
    \/ args.thoughtNumber.t # "number"
    \/ args.totalThoughts.t # "number"
    \/ args.nextThoughtNeeded.t # "boolean"

\* C1: a reasoning step that fails structural validation returns an
\* envelope with the error flag set and leaves thoughtHistory and branches
\* exactly as they were.
C1_InvalidStepRejected ==
    [][(request'.name = "sequentialthinking" /\ StructurallyInvalid(request'.arguments))
         => /\ response'.state = "returned"
            /\ response'.envelope.isError
            /\ thoughtHistory' = thoughtHistory
            /\ branches' = branches]_vars

\* An invalid step was rejected by a session that already holds a step and
\* a branch.
C1_Witness ==
    /\ ThinkingCalled
    /\ StructurallyInvalid(request.arguments)
    /\ ErrorReturned
    /\ Len(thoughtHistory) >= 1
    /\ Len(branches) >= 1

\* C2: thoughtHistory is append-only: its length never decreases and every
\* recorded entry keeps its position and all its fields.
C2_HistoryAppendOnly ==
    [][/\ Len(thoughtHistory') >= Len(thoughtHistory)
       /\ \A i \in 1..Len(thoughtHistory) : thoughtHistory'[i] = thoughtHistory[i]]_vars

\* A revision of thought 1 was recorded after thought 1, which is intact.
C2_Witness ==
    /\ Len(thoughtHistory) >= 2
    /\ thoughtHistory[1].thoughtNumber = Num(1)
    /\ thoughtHistory[1].isRevision = Undefined
    /\ thoughtHistory[2].isRevision = Bool(TRUE)
    /\ thoughtHistory[2].revisesThought = Num(1)

\* A reasoning step inside every declared rule: non-empty text, stepNumber
\* and totalStepsEstimate integers >= 1, continuationNeeded a boolean.
StructurallyValid(args) ==
    /\ args.t = "object"
    /\ args.thought.t = "string" /\ args.thought # Str("")
    /\ args.thoughtNumber.t = "number" /\ args.thoughtNumber.n >= 1
    /\ args.totalThoughts.t = "number" /\ args.totalThoughts.n >= 1
    /\ args.nextThoughtNeeded.t = "boolean"

\* C3: every structurally valid step submitted adds exactly one entry and
\* returns a success summary reporting the new length, so the N-th of N
\* valid steps submitted to a fresh session reports N.
C3_NthStepReportsN ==
    [][(request'.name = "sequentialthinking" /\ StructurallyValid(request'.arguments))
         => /\ Len(thoughtHistory') = Len(thoughtHistory) + 1
            /\ response'.state = "returned"
            /\ ~response'.envelope.isError
            /\ response'.envelope.content[1].text.thoughtHistoryLength
                  = Len(thoughtHistory) + 1]_vars

\* C4: the estimate stored for an accepted step, and the one its summary
\* reports, is the larger of the submitted stepNumber and the submitted
\* totalStepsEstimate; every entry of thoughtHistory has
\* totalThoughts >= thoughtNumber.
C4_EstimateRaisedToStep ==
    /\ [](\A i \in 1..Len(thoughtHistory) :
             thoughtHistory[i].totalThoughts.n >= thoughtHistory[i].thoughtNumber.n)
    /\ [][Len(thoughtHistory') > Len(thoughtHistory)
            => LET submitted == request'.arguments
                   m == Max(submitted.thoughtNumber.n, submitted.totalThoughts.n)
               IN /\ thoughtHistory'[Len(thoughtHistory')].totalThoughts = Num(m)
                  /\ thoughtHistory'[Len(thoughtHistory')].thoughtNumber
                        = submitted.thoughtNumber
                  /\ ~response'.envelope.isError
                        => response'.envelope.content[1].text.totalThoughts = m]_vars

\* A step submitted with stepNumber 2 and estimate 1 was stored and reported
\* with estimate 2.
C4_Witness ==
    /\ SummaryReturned
    /\ request.arguments.thoughtNumber = Num(2)
    /\ request.arguments.totalThoughts = Num(1)
    /\ thoughtHistory[Len(thoughtHistory)].totalThoughts = Num(2)
    /\ ResponseText.totalThoughts = 2

\* C5: once a step carrying a branchFromStep and a branchId L has been
\* submitted, every step submitted for branch L (branchId L together with a
\* branchFromStep, the only defined way to name a branch) returns a summary
\* that lists L exactly once, and the sequence recorded for L is as long as
\* the number of those steps.
C5_BranchListedOnce ==
    (/\ request.name = "sequentialthinking"
     /\ StructurallyValid(request.arguments)
     /\ Truthy(request.arguments.branchFromThought)
     /\ request.arguments.branchId.t = "string"
     /\ request.arguments.branchId # Str(""))
    => LET L == request.arguments.branchId.s IN
       /\ SummaryReturned
       /\ Count(ResponseText.branches, L) = 1
       /\ Len(GetProp(branches, L).a)
             = Cardinality({i \in 1..Len(thoughtHistory) :
                              /\ thoughtHistory[i].branchId = Str(L)
                              /\ Truthy(thoughtHistory[i].branchFromThought)})

\* C6: the branch list of every summary is the known branch labels in the
\* order in which they were first registered.
C6_BranchesInInsertionOrder ==
    SummaryReturned
    => ResponseText.branches = [i \in 1..Len(branches) |-> branches[i].key]

\* C7: an input that passes validateThoughtData yields a summary without
\* the error flag.
C7_FailsOnlyAtValidation ==
    (/\ request.name = "sequentialthinking"
     /\ ~validateThoughtData(request.arguments).threw)
    => (response.state = "returned" /\ ~response.envelope.isError)

\* C8: a call whose name is not a catalogued tool returns an envelope with
\* the error flag set whose text carries the name, and changes neither
\* thoughtHistory nor branches.
C8_UnknownToolRejected ==
    [][request'.name \notin ToolNames
         => /\ response'.state = "returned"
            /\ response'.envelope.isError
            /\ response'.envelope.content[1].text
                  = [message |-> "Error: Unknown tool: " \o request'.name]
            /\ thoughtHistory' = thoughtHistory
            /\ branches' = branches]_vars

\* An unknown tool was called on a session that holds a step and a branch.
C8_Witness ==
    /\ request.name = "doesNotExist"
    /\ ErrorReturned
    /\ Len(thoughtHistory) >= 1
    /\ Len(branches) >= 1

\* The requests whose handling raises an error: an unknown name, arguments
\* the tool's schema rejects, an invalid reasoning step, and a reasoning
\* step whose branchId names a property inherited from Object.prototype.
RaisesError(req) ==
    CASE req.name = "sequentialthinking" ->
           \/ validateThoughtData(req.arguments).threw
           \/ /\ Truthy(req.arguments.branchFromThought)
              /\ Truthy(req.arguments.branchId)
              /\ PropertyKey(req.arguments.branchId) \in ObjectPrototypeKeys
      [] req.name = "find_nearby_medical_facilities" ->
           FindNearbyMedicalFacilitiesSchema(req.arguments).threw
      [] req.name = "check_medicare_coverage" ->
           CheckMedicareCoverageSchema(req.arguments).threw
      [] req.name = "get_emergency_contacts" ->
           GetEmergencyContactsSchema(req.arguments).threw
      [] req.name = "schedule_emergency_transport" ->
           ScheduleEmergencyTransportSchema(req.arguments).threw
      [] OTHER -> TRUE

\* C9: every request ends with exactly one envelope returned; an error
\* raised while handling it becomes an envelope with the error flag set and
\* a text message, and no error leaves the handler.
C9_EveryRequestReturnsEnvelope ==
    response # NoResponse
    => /\ response.state = "returned"
       /\ Len(response.envelope.content) = 1
       /\ response.envelope.content[1].type = "text"
       /\ RaisesError(request)
            => /\ response.envelope.isError
               /\ \/ "message" \in DOMAIN ResponseText
                  \/ "error" \in DOMAIN ResponseText

\* A fault inside processThought, after validation, came back as an error
\* envelope.
C9_Witness ==
    /\ ThinkingCalled
    /\ ~validateThoughtData(request.arguments).threw
    /\ ErrorReturned
    /\ ResponseText.status = "failed"

\* A facility passes every filter the arguments specify.
PassesSpecifiedFilters(a, facility) ==
    /\ treatmentSpecified(a) => treatmentMatches(a, facility)
    /\ careQualitySpecified(a) => careQualityMatches(a, facility)
    /\ priceRangeSpecified(a) => priceRangeMatches(a, facility)
    /\ facilityTypeSpecified(a) => facilityTypeMatches(a, facility)
    /\ infrastructureSpecified(a) => infrastructureMatches(a, facility)

\* No optional filter is given.
NoFilterGiven(a) ==
    /\ a.treatmentNeeds = Undefined
    /\ a.careQuality = Undefined
    /\ a.priceRange = Undefined
    /\ a.facilities = Undefined
    /\ a.infrastructure = Undefined

\* C10: for valid facility-search arguments the reported count is the
\* number of the three candidate facilities that pass every specified
\* filter; with no optional filter it is 3.
C10_CountIsConjunctionOfFilters ==
    (/\ request.name = "find_nearby_medical_facilities"
     /\ response # NoResponse
     /\ ~FindNearbyMedicalFacilitiesSchema(request.arguments).threw)
    => LET a == request.arguments IN
       /\ response.state = "returned"
       /\ ~response.envelope.isError
       /\ ResponseText.found
             = Cardinality({i \in 1..Len(mockFacilities) :
                              PassesSpecifiedFilters(a, mockFacilities[i])})
       /\ NoFilterGiven(a) => ResponseText.found = 3

\* A search with all five filters specified kept exactly one facility.
C10_Witness ==
    /\ request.name = "find_nearby_medical_facilities"
    /\ response # NoResponse
    /\ ~FindNearbyMedicalFacilitiesSchema(request.arguments).threw
    /\ treatmentSpecified(request.arguments)
    /\ careQualitySpecified(request.arguments)
    /\ priceRangeSpecified(request.arguments)
    /\ facilityTypeSpecified(request.arguments)
    /\ infrastructureSpecified(request.arguments)
    /\ ResponseText.found = 1

\* A valid facility search has been handled.
SearchHandled ==
    /\ request.name = "find_nearby_medical_facilities"
    /\ response # NoResponse
    /\ ~FindNearbyMedicalFacilitiesSchema(request.arguments).threw

\* The facility names a search result lists.
Listed == {ResponseText.listed[i] : i \in 1..Len(ResponseText.listed)}

\* The ratings an ordinal filter value admits, exact or better; "any" and
\* an omitted filter admit every rating.
AdmittedCareQuality(q) ==
    CASE q = Str("high") -> {"high"}
      [] q = Str("medium") -> {"medium", "high"}
      [] OTHER -> {"low", "medium", "high"}

AdmittedInfrastructure(q) ==
    CASE q = Str("excellent") -> {"excellent"}
      [] q = Str("good") -> {"good", "excellent"}
      [] OTHER -> {"poor", "good", "excellent"}

\* The filters other than the two ordinal ones.
PassesOtherThanOrdinal(a, facility) ==
    /\ treatmentSpecified(a) => treatmentMatches(a, facility)
    /\ priceRangeSpecified(a) => priceRangeMatches(a, facility)
    /\ facilityTypeSpecified(a) => facilityTypeMatches(a, facility)

\* C11: the care-quality and infrastructure filters are exact-or-better:
\* "medium" admits medium and high, "high" only high, "good" admits good and
\* excellent, "excellent" only excellent; "any" admits every facility, as
\* omitting the filter does.
C11_OrdinalFiltersExactOrBetter ==
    SearchHandled
    => LET a == request.arguments IN
       /\ \A i \in 1..Len(mockFacilities) :
            mockFacilities[i].name \in Listed
            <=> /\ PassesOtherThanOrdinal(a, mockFacilities[i])
                /\ mockFacilities[i].careQuality \in AdmittedCareQuality(a.careQuality)
                /\ mockFacilities[i].infrastructure
                      \in AdmittedInfrastructure(a.infrastructure)
       /\ a.careQuality = Str("any")
            => ResponseText = findNearbyMedicalFacilities(
                  [a EXCEPT !.careQuality = Undefined,
                            !.radius = Num(DefaultRadius)]).content[1].text
       /\ a.infrastructure = Str("any")
            => ResponseText = findNearbyMedicalFacilities(
                  [a EXCEPT !.infrastructure = Undefined,
                            !.radius = Num(DefaultRadius)]).content[1].text

\* A search asking only for care quality "medium" listed the medium-rated
\* clinic and a high-rated hospital.
C11_Witness ==
    /\ SearchHandled
    /\ request.arguments.careQuality = Str("medium")
    /\ ~treatmentSpecified(request.arguments)
    /\ ~priceRangeSpecified(request.arguments)
    /\ ~facilityTypeSpecified(request.arguments)
    /\ ~infrastructureSpecified(request.arguments)
    /\ {"Community Clinic", "General Hospital"} \subseteq Listed

\* The filters other than the treatment filter.
PassesOtherThanTreatment(a, facility) ==
    /\ careQualitySpecified(a) => careQualityMatches(a, facility)
    /\ priceRangeSpecified(a) => priceRangeMatches(a, facility)
    /\ facilityTypeSpecified(a) => facilityTypeMatches(a, facility)
    /\ infrastructureSpecified(a) => infrastructureMatches(a, facility)

\* The treatments a search asks for, and those a facility offers.
Requested(a) == {a.treatmentNeeds.a[i].s : i \in 1..Len(a.treatmentNeeds.a)}
Offered(facility) ==
    {facility.treatmentsAvailable[i] : i \in 1..Len(facility.treatmentsAvailable)}

\* C12: with a non-empty treatmentNeeds list a facility is kept exactly when
\* it offers at least one requested treatment (and passes the other
\* filters); treatmentNeeds = ["oncology"] alone lists exactly
\* "Specialized Medical Center".
C12_TreatmentFilterAnyMatch ==
    (SearchHandled /\ request.arguments.treatmentNeeds.t = "array"
                   /\ Len(request.arguments.treatmentNeeds.a) > 0)
    => LET a == request.arguments IN
       /\ \A i \in 1..Len(mockFacilities) :
            mockFacilities[i].name \in Listed
            <=> /\ Requested(a) \cap Offered(mockFacilities[i]) # {}
                /\ PassesOtherThanTreatment(a, mockFacilities[i])
       /\ (a.treatmentNeeds = StrArr(<<"oncology">>) /\ NoFilterGiven(
              [a EXCEPT !.treatmentNeeds = Undefined]))
            => /\ ResponseText.found = 1
               /\ ResponseText.listed = <<"Specialized Medical Center">>

\* A search for two treatments offered by different facilities listed both.
C12_Witness ==
    /\ SearchHandled
    /\ request.arguments.treatmentNeeds = StrArr(<<"emergency", "pediatrics">>)
    /\ NoFilterGiven([request.arguments EXCEPT !.treatmentNeeds = Undefined])
    /\ ResponseText.listed = <<"General Hospital", "Community Clinic">>

\* The smallest stepNumber and totalStepsEstimate the tool's input schema
\* declares.
DeclaredMinimum == 1

\* C13: a step whose thoughtNumber or totalThoughts is below the declared
\* minimum is rejected and not recorded, so every entry of thoughtHistory
\* has thoughtNumber >= 1 and totalThoughts >= 1.
C13_HistoryEntriesInRange ==
    /\ \A i \in 1..Len(thoughtHistory) :
         /\ thoughtHistory[i].thoughtNumber.n >= DeclaredMinimum
         /\ thoughtHistory[i].totalThoughts.n >= DeclaredMinimum
    /\ (/\ ThinkingCalled
        /\ request.arguments # Undefined
        /\ \/ /\ TypeOf(request.arguments.thoughtNumber) = "number"
              /\ request.arguments.thoughtNumber.n < DeclaredMinimum
           \/ /\ TypeOf(request.arguments.totalThoughts) = "number"
              /\ request.arguments.totalThoughts.n < DeclaredMinimum)
       => ErrorReturned

\* The required fields of a reasoning step in the order the specification
\* gives for the checks, and the message that names each.
FieldOrder == <<"thought", "thoughtNumber", "totalThoughts", "nextThoughtNeeded">>

FieldMessage ==
    [thought |-> "Invalid thought: must be a string",
     thoughtNumber |-> "Invalid thoughtNumber: must be a number",
     totalThoughts |-> "Invalid totalThoughts: must be a number",
     nextThoughtNeeded |-> "Invalid nextThoughtNeeded: must be a boolean"]

\* A field of a step offends when it breaks a declared rule: thought a
\* non-empty string, thoughtNumber and totalThoughts numbers not below the
\* declared minimum, nextThoughtNeeded a boolean.
Offending(args, f) ==
    CASE f = "thought" -> ~(args.thought.t = "string" /\ args.thought # Str(""))
      [] f = "nextThoughtNeeded" -> args.nextThoughtNeeded.t # "boolean"
      [] OTHER -> ~(args[f].t = "number" /\ args[f].n >= DeclaredMinimum)

OffendingFields(args) == {i \in 1..Len(FieldOrder) : Offending(args, FieldOrder[i])}

\* The smallest member of a non-empty set of positions.
Min(S) == CHOOSE x \in S : \A y \in S : x <= y

\* C14: when a step violates several structural rules at once, the error
\* message names the first offending field in the order thought,
\* thoughtNumber, totalThoughts, nextThoughtNeeded, and no other field.
C14_FirstOffendingFieldNamed ==
    (/\ ThinkingCalled
     /\ request.arguments.t = "object"
     /\ Cardinality(OffendingFields(request.arguments)) >= 2)
    => /\ ErrorReturned
       /\ ResponseText.error
            = FieldMessage[FieldOrder[Min(OffendingFields(request.arguments))]]
       /\ Cardinality({i \in 1..Len(FieldOrder) :
                         ResponseText.error = FieldMessage[FieldOrder[i]]}) = 1

\* C15: a call naming one of the four tools of the README is dispatched to
\* a handler and does not fail as an unknown tool.
C15_ReadmeToolsDispatched ==
    (request.name \in ReadmeToolNames /\ response.state = "returned")
    => ~(/\ response.envelope.isError
         /\ ResponseText = [message |-> "Error: Unknown tool: " \o request.name])

\* The sequence recorded for a branch label; empty when there is none.
BranchSequence(br, key) == IF HasOwn(br, key) THEN GetProp(br, key).a ELSE <<>>

\* The branch labels that have a sequence.
BranchLabels(br) == {br[i].key : i \in 1..Len(br)}

\* C16: when a recorded step carries both branchFromThought and branchId,
\* the sequence of that branchId exists afterwards and has grown by exactly
\* that step, and no other sequence changed; a recorded step lacking either
\* field leaves branches unchanged.
C16_BranchRegistration ==
    [][(/\ request'.name = "sequentialthinking"
        /\ Len(thoughtHistory') = Len(thoughtHistory) + 1)
       => LET a == request'.arguments IN
          IF a.branchFromThought # Undefined /\ a.branchId # Undefined
          THEN LET L == PropertyKey(a.branchId) IN
               /\ HasOwn(branches', L)
               /\ BranchSequence(branches', L)
                     = Append(BranchSequence(branches, L), Len(thoughtHistory'))
               /\ BranchLabels(branches') = BranchLabels(branches) \cup {L}
               /\ \A K \in BranchLabels(branches) \ {L} :
                     BranchSequence(branches', K) = BranchSequence(branches, K)
          ELSE branches' = branches]_vars

\* The total length of the sequences from position i on.
RECURSIVE SumOfLengths(_, _)
SumOfLengths(br, i) ==
    IF i > Len(br) THEN 0 ELSE Len(br[i].refs) + SumOfLengths(br, i + 1)

\* C17: every step held in a branch's sequence is an entry of thoughtHistory,
\* no step is held in two sequences, and so the lengths of all sequences
\* together never exceed the length of thoughtHistory.
C17_BranchStepsAreHistorySteps ==
    /\ \A i \in 1..Len(branches) : \A k \in 1..Len(branches[i].refs) :
         branches[i].refs[k] \in 1..Len(thoughtHistory)
    /\ \A i, j \in 1..Len(branches) :
         \A k \in 1..Len(branches[i].refs) : \A l \in 1..Len(branches[j].refs) :
            (i # j \/ k # l) => branches[i].refs[k] # branches[j].refs[l]
    /\ SumOfLengths(branches, 1) <= Len(thoughtHistory)

\* Two branches each hold one of the two recorded steps.
C17_Witness ==
    /\ Len(thoughtHistory) = 2
    /\ Len(branches) = 2
    /\ \A i \in 1..2 : Len(branches[i].refs) = 1

\* C18: a structurally valid step submitted to a session that already holds
\* steps is appended to thoughtHistory and returns no error, whatever the
\* thoughtNumber values recorded before it: equal, lower or skipping ahead.
C18_AcceptedWhateverTheHistory ==
    [][(/\ request'.name = "sequentialthinking"
        /\ StructurallyValid(request'.arguments)
        /\ Len(thoughtHistory) >= 1)
       => /\ Len(thoughtHistory') = Len(thoughtHistory) + 1
          /\ SubSeq(thoughtHistory', 1, Len(thoughtHistory)) = thoughtHistory
          /\ thoughtHistory'[Len(thoughtHistory')]
                = normalise(validateThoughtData(request'.arguments).value)
          /\ response'.state = "returned"
          /\ ~response'.envelope.isError]_vars

\* C19 as stated: of two successive successful reasoning-step calls the
\* later never reports a lower total-steps estimate than the earlier.
C19_EstimateNeverLowered ==
    [][(SummaryReturned /\ SummaryReturned')
         => ResponseText'.totalThoughts >= ResponseText.totalThoughts]_vars

\* C19 amended: the estimate a successful call reports is fixed by that call
\* alone: it is not lower than the estimate and the step number the call
\* submitted, and it is what the same step reports on a fresh session;
\* over a session it may go up or down.
C19_EstimateSetPerCall ==
    SummaryReturned
    => /\ ResponseText.totalThoughts >= request.arguments.totalThoughts.n
       /\ ResponseText.totalThoughts >= request.arguments.thoughtNumber.n
       /\ ResponseText.totalThoughts
             = processThought(<<>>, <<>>, request.arguments)
                   .result.content[1].text.totalThoughts

\* The second of two successful calls reported a lower estimate than the
\* first.
C19_Witness ==
    /\ SummaryReturned
    /\ Len(thoughtHistory) = 2
    /\ thoughtHistory[1].branchId = Undefined
    /\ ResponseText.totalThoughts = thoughtHistory[2].totalThoughts.n
    /\ thoughtHistory[1].totalThoughts.n > thoughtHistory[2].totalThoughts.n

\* The four mock operations.
MockToolNames == ToolNames \ {"sequentialthinking"}

\* Reasoning steps submitted after a mock call: one on the main line and one
\* on a branch; their summaries show the history length and the branch list.
LaterSteps ==
    {PlainThought(Num(1), Num(1), Bool(TRUE)), BranchThought(Num(1), Str("b"))}

\* C20: a call of one of the four mock operations, whether it succeeds or
\* fails validation, leaves thoughtHistory and branches unchanged, and any
\* reasoning step submitted next returns what it would have returned had the
\* mock call not happened.
C20_MockCallsLeaveSession ==
    [][request'.name \in MockToolNames
         => /\ response'.state = "returned"
            /\ thoughtHistory' = thoughtHistory
            /\ branches' = branches
            /\ \A input \in LaterSteps :
                  callTool(thoughtHistory', branches', "sequentialthinking", input, 0)
                    = callTool(thoughtHistory, branches, "sequentialthinking", input, 0)]_vars

\* A mock operation succeeded on a session that holds a step and a branch.
C20_Witness ==
    /\ request.name \in MockToolNames
    /\ response.state = "returned"
    /\ ~response.envelope.isError
    /\ Len(thoughtHistory) >= 1
    /\ Len(branches) >= 1

\* A recorded step that names a branch: both branchFromThought and
\* branchId are set.
NamesBranch(data) == Truthy(data.branchFromThought) /\ Truthy(data.branchId)

\* C21: requests are handled one at a time to completion, so in no state a
\* request can observe is a step in thoughtHistory without being in the
\* sequence of the branch it names, and the history length a reasoning step
\* reports is the number of steps recorded up to and including it.
C21_NoHalfRecordedStep ==
    /\ [](\A k \in 1..Len(thoughtHistory) :
            NamesBranch(thoughtHistory[k])
            => \E i \in 1..Len(branches) :
                 /\ branches[i].key = PropertyKey(thoughtHistory[k].branchId)
                 /\ Count(branches[i].refs, k) = 1)
    /\ [][(request'.name = "sequentialthinking"
           /\ Len(pending') < Len(pending)
           /\ ~response'.envelope.isError)
          => /\ Len(thoughtHistory') = Len(thoughtHistory) + 1
             /\ response'.envelope.content[1].text.thoughtHistoryLength
                   = Len(thoughtHistory')]_vars
====
